---- MODULE Spec2Model ----
(***************************************************************************)
(* Model of the retrieval-augmented question-answering service:            *)
(*   app/rag_chain.py     session memory (_session_histories), query,      *)
(*                        clear_memory                                     *)
(*   app/vector_store.py  lazily constructed client singletons,            *)
(*                        add_documents, delete_all_records                *)
(*   delete_pinecone.py   the stand-alone reset script                     *)
(*                                                                         *)
(* Python lists are objects with identity: a session history is a list in  *)
(* the heap, the session map holds a reference to it, and a running query  *)
(* holds its own reference in the local variable `history`.  Request       *)
(* handlers run on threads (Flask's threaded server); a thread can be      *)
(* preempted between any two bytecodes, so every read or write of shared   *)
(* state is a step of its own, while purely local computation is folded    *)
(* into the neighbouring step.                                             *)
(***************************************************************************)
EXTENDS Integers, Sequences, FiniteSets, TLC

(* ------------------------------ bounds -------------------------------- *)
MaxQueries  == 3       \* query calls issued, one after the other, in one behaviour
MaxClears   == 2       \* clear_memory calls issued, one after the other, in one behaviour
ConcQueries == 2       \* query calls issued in one behaviour of concurrent requests
ConcClears  == 1       \* clear_memory calls issued in one behaviour of concurrent requests
MaxCalls    == 3       \* first-use calls of the client getters in one behaviour
MaxResets   == 2       \* reset runs started in one behaviour
MaxAdds     == 2       \* add_documents calls in one behaviour
MaxDocs     == 2       \* units a retrieval returns, documents handed to the chunker
MaxNameLen  == 4       \* pieces of a file name

Threads    == {"t1", "t2"}
Sessions   == {"s1", "s2"}
Questions  == {"", "q"}
Answers    == {"a", "b"}

(* --------------------------- program constants ------------------------ *)
HistoryCap == 20       \* rag_chain.py:91  len(history) > 20 / history[-20:]
PreviewLen == 200      \* rag_chain.py:100 page_content[:200], len(page_content) > 200
Dot        == 46       \* rag_chain.py:100 the character of "..."

(* Histories the sessions may already hold when a behaviour starts: none   *)
(* (fresh process), or the turns of 9 exchanges served earlier, one after  *)
(* the other, which brings the cap within reach of the next queries.       *)
Prefills   == {0, (HistoryCap \div 2) - 1}

NoObj      == 0
None       == 0        \* a global that holds no client yet
ObjIds     == 1 .. (Cardinality(Sessions) + Cardinality(Threads) + 1)

VARIABLES
    session_histories,  \* _session_histories: session id -> list reference (NoObj: key absent)
    heap,               \* list objects: reference -> sequence of turns
    th,                 \* per thread: position and locals of the running call
                        \* (pre, a history variable: the session's turns when the call was issued)
    nq,                 \* number of query calls issued
    nclr,               \* number of clear_memory calls issued
    ret,                \* outcome of the call that returned last ("none": a call was issued since)
    ngen,               \* number of generation calls that have returned an answer
    appended,           \* history variable: turns appended to a session since its last clear
    okCount,            \* history variable: successful queries on a session since fresh / last clear
    justCleared,        \* history variable: the last call issued on the session was clear_memory
    wiped,              \* history variable: per session, the turns appended before its last
                        \* clear that some list of a running query still holds
    embeddings,         \* _embeddings: client instance or None
    pinecone_client,    \* _pinecone_client: client instance or None
    vector_store,       \* _vector_store: client instance or None
    lz,                 \* per thread: position and locals of a running client getter
    ncalls,             \* number of getter calls issued
    built,              \* history variable: clients constructed, per kind
    received,           \* history variable: instances handed to callers, per kind
    index,              \* the vector index: namespace -> number of records
    rs,                 \* per reset runner: position, locals and log of its run
    nresets,            \* number of reset runs started
    nadds,              \* number of add_documents calls
    search,             \* a similarity search: its arguments, position and outcome
    res,                \* the sources of a query result being built from the retrieved units
    chk,                \* a chunk_documents call: its arguments and outcome
    up                  \* an upload: the file name, position and outcome

memvars   == <<session_histories, heap, th, nq, nclr, ret, ngen, appended, okCount, justCleared,
               wiped>>
clients   == <<embeddings, pinecone_client, vector_store, built>>
lazyvars  == <<lz, ncalls, received>>
resetvars == <<index, rs, nresets, nadds>>
toolvars  == <<search, res, chk, up>>

(* ------------------------------ helpers ------------------------------- *)
\* a turn is the tuple (role, text) of rag_chain.py:87-88; gen and sid
\* record which query appended it: gen is the rank of that query's
\* generation among all generations completed (negative: served earlier)
Turn(role, text, gen, sid) == [role |-> role, text |-> text, gen |-> gen, sid |-> sid]

\* mutant of LastN: history[:20], the slice taken from the wrong end
LastN_front(seq, n) ==
    IF Len(seq) <= n THEN seq ELSE SubSeq(seq, 1, n)

\* history[-20:]
LastN(seq, n) ==
    IF Len(seq) <= n THEN seq ELSE SubSeq(seq, Len(seq) - n + 1, Len(seq))

\* `session_id in _session_histories`
Registered(s) == session_histories[s] # NoObj

\* the turns of the history registered for s (none when the key is absent)
Turns(s) == IF Registered(s) THEN heap[session_histories[s]] ELSE <<>>

\* list objects still referenced from the map m or a thread's local `history`
Referenced(m, t) == {m[s] : s \in Sessions} \cup {t[x].history : x \in Threads}

\* reference counting frees a list once nothing refers to it
Collect(h, m, t) == [o \in ObjIds |-> IF o \in Referenced(m, t) THEN h[o] ELSE <<>>]

\* the turns of the lists that queries running on session s still refer to
\* through their local `history` (h: the heap, t: the threads)
StillHeld(s, h, t) ==
    UNION {{h[t[x].history][i] : i \in 1 .. Len(h[t[x].history])} :
              x \in {y \in Threads : t[y].history # NoObj /\ t[y].sid = s}}

\* a fresh list object
NewObj == CHOOSE o \in ObjIds : o \notin Referenced(session_histories, th)

IdleThread == [pc |-> "idle", sid |-> "s1", question |-> "", gen |-> 0,
               history |-> NoObj, prompt |-> <<>>, answer |-> "", sliced |-> <<>>,
               pre |-> <<>>]

\* the exchanges served before the behaviour starts
PrefillTurns(s, p) ==
    [i \in 1 .. 2 * p |->
        IF i % 2 = 1 THEN Turn("human", "q", ((i + 1) \div 2) - p - 1, s)
                     ELSE Turn("assistant", "a", (i \div 2) - p - 1, s)]

SessionObj(s) == IF s = "s1" THEN 1 ELSE 2

\* the server hands a request to a free worker thread; which one is immaterial
FreeWorker(t) == /\ th[t].pc = "idle"
                 /\ \A u \in Threads : th[u].pc = "idle" => (t = "t1" \/ u # "t1")

(* ---------------- vector_store: the client singletons ------------------ *)
Kinds == {"embeddings", "pinecone", "vector_store"}

\* a newly constructed client of kind k (instances are numbered per kind)
NewClient(k) == built[k] + 1

\* init_pinecone() run without interruption (vector_store.py:30-35)
InitPineconeNow ==
    IF pinecone_client = None THEN NewClient("pinecone") ELSE pinecone_client

\* get_embeddings() run without interruption (vector_store.py:19-27)
GetEmbeddingsNow ==
    IF embeddings = None THEN NewClient("embeddings") ELSE embeddings

\* get_vector_store() run without interruption, as get_retriever calls it
\* (vector_store.py:38-52, 80): the interleavings of the getters
\* themselves are the subject of LazySpec below
GetVectorStoreNow ==
    IF vector_store # None
    THEN UNCHANGED clients
    ELSE /\ pinecone_client' = InitPineconeNow
         /\ embeddings' = GetEmbeddingsNow
         /\ vector_store' = NewClient("vector_store")
         /\ built' = [k \in Kinds |->
                        IF \/ k = "vector_store"
                           \/ k = "pinecone" /\ pinecone_client = None
                           \/ k = "embeddings" /\ embeddings = None
                        THEN built[k] + 1 ELSE built[k]]

(* ------------------------------- Init --------------------------------- *)
MemInit(p) ==
        /\ session_histories = [s \in Sessions |-> IF p = 0 THEN NoObj ELSE SessionObj(s)]
        /\ heap = [o \in ObjIds |->
                     IF p > 0 /\ \E s \in Sessions : SessionObj(s) = o
                     THEN PrefillTurns(CHOOSE s \in Sessions : SessionObj(s) = o, p)
                     ELSE <<>>]
        /\ th = [t \in Threads |-> IdleThread]
        /\ nq = 0
        /\ nclr = 0
        /\ ret = "none"
        /\ ngen = 0
        /\ appended = [s \in Sessions |-> PrefillTurns(s, p)]
        /\ okCount = [s \in Sessions |-> p]
        /\ justCleared = [s \in Sessions |-> FALSE]
        /\ wiped = [s \in Sessions |-> {}]
        \* the earlier queries have constructed the clients
        /\ embeddings = IF p = 0 THEN None ELSE 1
        /\ pinecone_client = IF p = 0 THEN None ELSE 1
        /\ vector_store = IF p = 0 THEN None ELSE 1
        /\ built = [k \in Kinds |-> IF p = 0 THEN 0 ELSE 1]

(* --------------------------- rag_chain.query -------------------------- *)
\* query(question, session_id) is called: get_retriever(k=4) fetches the
\* vector store, get_history tests `session_id not in _session_histories`
\* (rag_chain.py:51-58, 22)
Begin(t, s, q) ==
    /\ FreeWorker(t)
    /\ nq < MaxQueries
    /\ nq' = nq + 1
    /\ GetVectorStoreNow
    /\ th' = [th EXCEPT ![t] =
                [IdleThread EXCEPT !.pc = IF Registered(s) THEN "gh_return" ELSE "gh_create",
                                   !.sid = s, !.question = q,
                                   !.pre = Turns(s)]]
    /\ justCleared' = [justCleared EXCEPT ![s] = FALSE]
    /\ ret' = "none"
    /\ UNCHANGED <<session_histories, heap, nclr, ngen, appended, okCount,
                 wiped, lazyvars, resetvars, toolvars>>

\* mutant of GetHistoryCreate: a new list is handed to the query without
\* being stored under the session id
GetHistoryCreate_unregistered(t) ==
    /\ th[t].pc = "gh_create"
    /\ LET o == NewObj
       IN /\ th' = [th EXCEPT ![t].pc = "retrieve", ![t].history = o]
          /\ heap' = Collect([heap EXCEPT ![o] = <<>>], session_histories, th')
    /\ UNCHANGED <<session_histories, nq, nclr, ret, ngen, appended, okCount, justCleared,
                 wiped, clients, lazyvars, resetvars, toolvars>>

\* get_history: _session_histories[session_id] = []   (rag_chain.py:23)
GetHistoryCreate(t) ==
    /\ th[t].pc = "gh_create"
    /\ LET o == NewObj
           m == [session_histories EXCEPT ![th[t].sid] = o]
       IN /\ session_histories' = m
          /\ th' = [th EXCEPT ![t].pc = "gh_return"]
          /\ heap' = Collect([heap EXCEPT ![o] = <<>>], m, th')
    /\ UNCHANGED <<nq, nclr, ret, ngen, appended, okCount, justCleared,
                 wiped, clients, lazyvars, resetvars, toolvars>>

\* mutant of GetHistoryReturn: one history shared by all sessions (the
\* session id is ignored once some session is registered)
GetHistoryReturn_shared(t) ==
    /\ th[t].pc = "gh_return"
    /\ IF Registered(th[t].sid)
       THEN /\ th' = [th EXCEPT ![t].pc = "retrieve",
                                ![t].history =
                                    session_histories[CHOOSE s \in Sessions : Registered(s)]]
            /\ ret' = ret
       ELSE /\ th' = [th EXCEPT ![t] = IdleThread]
            /\ ret' = "error"
    /\ UNCHANGED <<session_histories, heap, nq, nclr, ngen, appended, okCount, justCleared,
                 wiped, clients, lazyvars, resetvars, toolvars>>

\* get_history: return _session_histories[session_id]   (rag_chain.py:24)
\* raises KeyError when the key was deleted in between
GetHistoryReturn(t) ==
    /\ th[t].pc = "gh_return"
    /\ IF Registered(th[t].sid)
       THEN /\ th' = [th EXCEPT ![t].pc = "retrieve",
                                ![t].history = session_histories[th[t].sid]]
            /\ ret' = ret
       ELSE /\ th' = [th EXCEPT ![t] = IdleThread]
            /\ ret' = "error"
    /\ UNCHANGED <<session_histories, heap, nq, nclr, ngen, appended, okCount, justCleared,
                 wiped, clients, lazyvars, resetvars, toolvars>>

\* mutant of Retrieve: the question is put into the history when the prompt
\* is assembled, before generation has run
Retrieve_ownTurn(t) ==
    /\ th[t].pc = "retrieve"
    /\ \/ LET h == [heap EXCEPT ![th[t].history] =
                        Append(@, Turn("human", th[t].question, 0, th[t].sid))]
          IN /\ th' = [th EXCEPT ![t].pc = "generate",
                                 ![t].prompt = h[th[t].history]]
             /\ heap' = Collect(h, session_histories, th')
             /\ ret' = ret
       \/ /\ th' = [th EXCEPT ![t] = IdleThread]
          /\ heap' = Collect(heap, session_histories, th')
          /\ ret' = "error"
    /\ UNCHANGED <<session_histories, nq, nclr, ngen, appended, okCount, justCleared,
                 wiped, clients, lazyvars, resetvars, toolvars>>

\* docs = retriever.invoke(question) returns or raises; on return the
\* prompt is built from the list `history` refers to (rag_chain.py:61-80)
Retrieve(t) ==
    /\ th[t].pc = "retrieve"
    /\ \/ /\ th' = [th EXCEPT ![t].pc = "generate",
                              ![t].prompt = heap[th[t].history]]
          /\ ret' = ret
       \/ /\ th' = [th EXCEPT ![t] = IdleThread]
          /\ ret' = "error"
    /\ heap' = Collect(heap, session_histories, th')
    /\ UNCHANGED <<session_histories, nq, nclr, ngen, appended, okCount, justCleared,
                 wiped, clients, lazyvars, resetvars, toolvars>>

\* mutant of Generate: the human turn is appended before generation, so a
\* failed generation leaves it behind
Generate_partial(t) ==
    /\ th[t].pc = "generate"
    /\ \/ \E a \in Answers :
            /\ th' = [th EXCEPT ![t].pc = "append_human", ![t].answer = a,
                                ![t].gen = ngen + 1, ![t].prompt = <<>>,
                                ![t].pre = <<>>]
            /\ ngen' = ngen + 1
            /\ ret' = ret
            /\ heap' = Collect(heap, session_histories, th')
       \/ /\ th' = [th EXCEPT ![t] = IdleThread]
          /\ ngen' = ngen
          /\ ret' = "error"
          /\ heap' = Collect([heap EXCEPT ![th[t].history] =
                                 Append(@, Turn("human", th[t].question, 0, th[t].sid))],
                             session_histories, th')
    /\ UNCHANGED <<session_histories, nq, nclr, appended, okCount, justCleared,
                 wiped, clients, lazyvars, resetvars, toolvars>>

\* answer = chain.invoke(...) returns or raises   (rag_chain.py:82-84)
Generate(t) ==
    /\ th[t].pc = "generate"
    /\ \/ \E a \in Answers :
            /\ th' = [th EXCEPT ![t].pc = "append_human", ![t].answer = a,
                                ![t].gen = ngen + 1, ![t].prompt = <<>>,
                                ![t].pre = <<>>]
            /\ ngen' = ngen + 1
            /\ ret' = ret
       \/ /\ th' = [th EXCEPT ![t] = IdleThread]
          /\ ngen' = ngen
          /\ ret' = "error"
    /\ heap' = Collect(heap, session_histories, th')
    /\ UNCHANGED <<session_histories, nq, nclr, appended, okCount, justCleared,
                 wiped, clients, lazyvars, resetvars, toolvars>>

\* history.append(("human", question))   (rag_chain.py:87)
AppendHuman(t) ==
    /\ th[t].pc = "append_human"
    /\ LET turn == Turn("human", th[t].question, th[t].gen, th[t].sid)
       IN /\ heap' = [heap EXCEPT ![th[t].history] = Append(@, turn)]
          /\ appended' = [appended EXCEPT ![th[t].sid] = Append(@, turn)]
    /\ th' = [th EXCEPT ![t].pc = "append_assistant"]
    /\ UNCHANGED <<session_histories, nq, nclr, ret, ngen, okCount, justCleared,
                 wiped, clients, lazyvars, resetvars, toolvars>>

\* mutant of AppendAssistant: the question is stored as the assistant turn
AppendAssistant_echo(t) ==
    /\ th[t].pc = "append_assistant"
    /\ LET turn == Turn("assistant", th[t].question, th[t].gen, th[t].sid)
       IN /\ heap' = [heap EXCEPT ![th[t].history] = Append(@, turn)]
          /\ appended' = [appended EXCEPT ![th[t].sid] = Append(@, turn)]
    /\ th' = [th EXCEPT ![t].pc = "trim"]
    /\ UNCHANGED <<session_histories, nq, nclr, ret, ngen, okCount, justCleared,
                 wiped, clients, lazyvars, resetvars, toolvars>>

\* history.append(("assistant", answer))   (rag_chain.py:88)
AppendAssistant(t) ==
    /\ th[t].pc = "append_assistant"
    /\ LET turn == Turn("assistant", th[t].answer, th[t].gen, th[t].sid)
       IN /\ heap' = [heap EXCEPT ![th[t].history] = Append(@, turn)]
          /\ appended' = [appended EXCEPT ![th[t].sid] = Append(@, turn)]
    /\ th' = [th EXCEPT ![t].pc = "trim"]
    /\ UNCHANGED <<session_histories, nq, nclr, ret, ngen, okCount, justCleared,
                 wiped, clients, lazyvars, resetvars, toolvars>>

\* mutant of Trim: the slice is one turn short, history[-19:]
Trim_short(t) ==
    /\ th[t].pc = "trim"
    /\ IF Len(heap[th[t].history]) > HistoryCap
       THEN /\ th' = [th EXCEPT ![t].pc = "store",
                                ![t].sliced = LastN(heap[th[t].history], HistoryCap - 1)]
            /\ UNCHANGED <<okCount, ret>>
       ELSE /\ th' = [th EXCEPT ![t] = IdleThread]
            /\ okCount' = [okCount EXCEPT ![th[t].sid] = @ + 1]
            /\ ret' = "ok"
    /\ heap' = Collect(heap, session_histories, th')
    /\ UNCHANGED <<session_histories, nq, nclr, ngen, appended, justCleared,
                 wiped, clients, lazyvars, resetvars, toolvars>>

\* if len(history) > 20: evaluate history[-20:]; otherwise the result is
\* built and the call returns   (rag_chain.py:91-92, 94-106)
Trim(t) ==
    /\ th[t].pc = "trim"
    /\ IF Len(heap[th[t].history]) > HistoryCap
       THEN /\ th' = [th EXCEPT ![t].pc = "store",
                                ![t].sliced = LastN(heap[th[t].history], HistoryCap)]
            /\ UNCHANGED <<okCount, ret>>
       ELSE /\ th' = [th EXCEPT ![t] = IdleThread]
            /\ okCount' = [okCount EXCEPT ![th[t].sid] = @ + 1]
            /\ ret' = "ok"
    /\ heap' = Collect(heap, session_histories, th')
    /\ UNCHANGED <<session_histories, nq, nclr, ngen, appended, justCleared,
                 wiped, clients, lazyvars, resetvars, toolvars>>

\* _session_histories[session_id] = <the slice>; then the result is built
\* and the call returns   (rag_chain.py:92, 94-106)
Store(t) ==
    /\ th[t].pc = "store"
    /\ LET o == NewObj
           m == [session_histories EXCEPT ![th[t].sid] = o]
       IN /\ session_histories' = m
          /\ th' = [th EXCEPT ![t] = IdleThread]
          /\ heap' = Collect([heap EXCEPT ![o] = th[t].sliced], m, th')
    /\ okCount' = [okCount EXCEPT ![th[t].sid] = @ + 1]
    /\ ret' = "ok"
    /\ UNCHANGED <<nq, nclr, ngen, appended, justCleared,
                 wiped, clients, lazyvars, resetvars, toolvars>>

(* ------------------------ rag_chain.clear_memory ---------------------- *)
\* clear_memory(session_id) is called and tests
\* `session_id in _session_histories`; returns False when it is not
ClearCheck(t, s) ==
    /\ FreeWorker(t)
    /\ nclr < MaxClears
    /\ nclr' = nclr + 1
    /\ justCleared' = [justCleared EXCEPT ![s] = TRUE]
    /\ IF Registered(s)
       THEN /\ th' = [th EXCEPT ![t] = [IdleThread EXCEPT !.pc = "clear_del", !.sid = s]]
            /\ ret' = "none"
       ELSE /\ th' = th
            /\ ret' = "False"
    /\ UNCHANGED <<session_histories, heap, nq, ngen, appended, okCount,
                 wiped, clients, lazyvars, resetvars, toolvars>>

\* mutant of ClearDel: the history is emptied in place and the key is kept
ClearDel_keepKey(t) ==
    /\ th[t].pc = "clear_del"
    /\ LET s == th[t].sid
       IN IF Registered(s)
          THEN /\ th' = [th EXCEPT ![t] = IdleThread]
               /\ heap' = Collect([heap EXCEPT ![session_histories[s]] = <<>>],
                                  session_histories, th')
               /\ appended' = [appended EXCEPT ![s] = <<>>]
               /\ okCount' = [okCount EXCEPT ![s] = 0]
               /\ wiped' = [wiped EXCEPT ![s] = StillHeld(s, heap', th')]
               /\ ret' = "True"
          ELSE /\ th' = [th EXCEPT ![t] = IdleThread]
               /\ ret' = "error"
               /\ UNCHANGED <<heap, appended, okCount, wiped>>
    /\ UNCHANGED <<session_histories, nq, nclr, ngen, justCleared,
                 clients, lazyvars, resetvars, toolvars>>

\* del _session_histories[session_id]; return True.  Raises KeyError when
\* the key was deleted in between.
ClearDel(t) ==
    /\ th[t].pc = "clear_del"
    /\ LET s == th[t].sid
           m == [session_histories EXCEPT ![s] = NoObj]
       IN IF Registered(s)
          THEN /\ session_histories' = m
               /\ th' = [th EXCEPT ![t] = IdleThread]
               /\ heap' = Collect(heap, m, th')
               /\ appended' = [appended EXCEPT ![s] = <<>>]
               /\ okCount' = [okCount EXCEPT ![s] = 0]
               /\ wiped' = [wiped EXCEPT ![s] = StillHeld(s, heap', th')]
               /\ ret' = "True"
          ELSE /\ th' = [th EXCEPT ![t] = IdleThread]
               /\ ret' = "error"
               /\ UNCHANGED <<session_histories, heap, appended, okCount, wiped>>
    /\ UNCHANGED <<nq, nclr, ngen, justCleared,
                 clients, lazyvars, resetvars, toolvars>>

(* -------- vector_store: the client getters, bytecode by bytecode ------ *)
Getters == {"get_vector_store", "init_pinecone", "get_embeddings"}

IdleGetter == [pc |-> "idle", entry |-> "init_pinecone"]

Bump(k) == [built EXCEPT ![k] = @ + 1]
Hand(k, inst) == [received EXCEPT ![k] = @ \cup {inst}]

\* a request calls one of the getters
GetterCall(t, e) ==
    /\ lz[t].pc = "idle"
    /\ ncalls < MaxCalls
    /\ ncalls' = ncalls + 1
    /\ lz' = [lz EXCEPT ![t] = [pc |-> CASE e = "get_vector_store" -> "vs_check"
                                         [] e = "init_pinecone"    -> "pc_check"
                                         [] e = "get_embeddings"   -> "emb_check",
                                entry |-> e]]
    /\ UNCHANGED <<clients, received, memvars, resetvars, toolvars>>

\* get_vector_store: if _vector_store is None   (vector_store.py:42)
GetVectorStoreCheck(t) ==
    /\ lz[t].pc = "vs_check"
    /\ lz' = [lz EXCEPT ![t].pc = IF vector_store = None THEN "pc_check" ELSE "vs_return"]
    /\ UNCHANGED <<clients, ncalls, received, memvars, resetvars, toolvars>>

\* init_pinecone: if _pinecone_client is None   (vector_store.py:33); when
\* it is not, the call made by get_vector_store drops the returned client
InitPineconeCheck(t) ==
    /\ lz[t].pc = "pc_check"
    /\ lz' = [lz EXCEPT ![t].pc =
                IF pinecone_client = None THEN "pc_store"
                ELSE IF lz[t].entry = "init_pinecone" THEN "pc_return" ELSE "emb_check"]
    /\ UNCHANGED <<clients, ncalls, received, memvars, resetvars, toolvars>>

\* init_pinecone: _pinecone_client = Pinecone(...)   (vector_store.py:34)
InitPineconeStore(t) ==
    /\ lz[t].pc = "pc_store"
    /\ pinecone_client' = NewClient("pinecone")
    /\ built' = Bump("pinecone")
    /\ lz' = [lz EXCEPT ![t].pc =
                IF lz[t].entry = "init_pinecone" THEN "pc_return" ELSE "emb_check"]
    /\ UNCHANGED <<embeddings, vector_store, ncalls, received, memvars, resetvars, toolvars>>

\* init_pinecone: return _pinecone_client   (vector_store.py:35)
InitPineconeReturn(t) ==
    /\ lz[t].pc = "pc_return"
    /\ received' = Hand("pinecone", pinecone_client)
    /\ lz' = [lz EXCEPT ![t] = IdleGetter]
    /\ UNCHANGED <<clients, ncalls, memvars, resetvars, toolvars>>

\* get_embeddings: if _embeddings is None   (vector_store.py:22)
GetEmbeddingsCheck(t) ==
    /\ lz[t].pc = "emb_check"
    /\ lz' = [lz EXCEPT ![t].pc = IF embeddings = None THEN "emb_store" ELSE "emb_return"]
    /\ UNCHANGED <<clients, ncalls, received, memvars, resetvars, toolvars>>

\* get_embeddings: _embeddings = OpenAIEmbeddings(...)   (vector_store.py:23-26)
GetEmbeddingsStore(t) ==
    /\ lz[t].pc = "emb_store"
    /\ embeddings' = NewClient("embeddings")
    /\ built' = Bump("embeddings")
    /\ lz' = [lz EXCEPT ![t].pc = "emb_return"]
    /\ UNCHANGED <<pinecone_client, vector_store, ncalls, received, memvars, resetvars, toolvars>>

\* get_embeddings: return _embeddings   (vector_store.py:27)
GetEmbeddingsReturn(t) ==
    /\ lz[t].pc = "emb_return"
    /\ received' = Hand("embeddings", embeddings)
    /\ lz' = [lz EXCEPT ![t] =
                IF lz[t].entry = "get_embeddings" THEN IdleGetter
                ELSE [lz[t] EXCEPT !.pc = "vs_store"]]
    /\ UNCHANGED <<clients, ncalls, memvars, resetvars, toolvars>>

\* get_vector_store: _vector_store = PineconeVectorStore(...)   (vector_store.py:46-50)
GetVectorStoreStore(t) ==
    /\ lz[t].pc = "vs_store"
    /\ vector_store' = NewClient("vector_store")
    /\ built' = Bump("vector_store")
    /\ lz' = [lz EXCEPT ![t].pc = "vs_return"]
    /\ UNCHANGED <<embeddings, pinecone_client, ncalls, received, memvars, resetvars, toolvars>>

\* get_vector_store: return _vector_store   (vector_store.py:52)
GetVectorStoreReturn(t) ==
    /\ lz[t].pc = "vs_return"
    /\ received' = Hand("vector_store", vector_store)
    /\ lz' = [lz EXCEPT ![t] = IdleGetter]
    /\ UNCHANGED <<clients, ncalls, memvars, resetvars, toolvars>>

(* ------- vector_store.delete_all_records and delete_pinecone.py ------- *)
DefaultNs  == ""
Namespaces == {DefaultNs, "n1", "n2"}
Runners    == {"api", "script"}     \* the endpoint's function and the script

\* stats, total: the namespaces and the total_vector_count of the statistics
\* read; history variables: log (the index calls made), dirty (records
\* were added during the run), adds (the uploads made before the run)
IdleRunner == [pc |-> "idle", stats |-> <<>>, total |-> 0, todo |-> <<>>,
               log |-> <<>>, dirty |-> FALSE, adds |-> 0]

RECURSIVE SumOver(_, _)
SumOver(f, S) ==
    IF S = {} THEN 0
    ELSE LET x == CHOOSE y \in S : TRUE IN f[x] + SumOver(f, S \ {x})

\* the orders in which the keys of a mapping may be listed
Orders(S) == {q \in [1 .. Cardinality(S) -> S] : \A i, j \in 1 .. Cardinality(S) :
                                                     q[i] = q[j] => i = j}

\* index.describe_index_stats(): the namespaces that hold records and the
\* total record count
StatsNamespaces(idx) == {ns \in Namespaces : idx[ns] > 0}
\* mutant of StatsTotal: the record count of the default namespace only
StatsTotal_defaultOnly(idx) == idx[DefaultNs]

StatsTotal(idx) == SumOver(idx, Namespaces)

LogEntry(op, ns) == [op |-> op, ns |-> ns]

\* vector_store.add_documents (vector_store.py:55-67): the chunks of an
\* upload become records of the default namespace
AddDocuments(n) ==
    /\ nadds < MaxAdds
    /\ nadds' = nadds + 1
    /\ GetVectorStoreNow
    /\ index' = [index EXCEPT ![DefaultNs] = @ + n]
    /\ rs' = [r \in Runners |-> IF rs[r].pc = "idle" THEN rs[r]
                                ELSE [rs[r] EXCEPT !.dirty = TRUE]]
    /\ UNCHANGED <<nresets, memvars, lazyvars, toolvars>>

\* pc = init_pinecone(); index = pc.Index(...);
\* stats = index.describe_index_stats()
\* (vector_store.py:106-113, delete_pinecone.py:12-19; the script builds a
\* client of its own)
ResetStats(r) ==
    /\ rs[r].pc = "idle"
    /\ nresets < MaxResets
    /\ nresets' = nresets + 1
    /\ IF r = "api"
       THEN /\ pinecone_client' = InitPineconeNow
            /\ built' = IF pinecone_client = None THEN Bump("pinecone") ELSE built
            /\ UNCHANGED <<embeddings, vector_store>>
       ELSE UNCHANGED clients
    /\ \E order \in Orders(StatsNamespaces(index)) :
          rs' = [rs EXCEPT ![r] = [pc |-> "del_default", stats |-> order,
                                   total |-> StatsTotal(index), todo |-> <<>>,
                                   log |-> <<LogEntry("stats", DefaultNs)>>,
                                   dirty |-> FALSE, adds |-> nadds]]
    /\ UNCHANGED <<index, nadds, memvars, lazyvars, toolvars>>

\* index.delete(delete_all=True, namespace="")
\* (vector_store.py:116, delete_pinecone.py:24)
ResetDeleteDefault(r) ==
    /\ rs[r].pc = "del_default"
    /\ index' = [index EXCEPT ![DefaultNs] = 0]
    /\ rs' = [rs EXCEPT ![r].pc = "loop", ![r].todo = rs[r].stats,
                        ![r].log = Append(@, LogEntry("delete", DefaultNs))]
    /\ UNCHANGED <<clients, nresets, nadds, memvars, lazyvars, toolvars>>

\* mutant of ResetLoop: only the default namespace is deleted
ResetLoop_defaultOnly(r) ==
    /\ rs[r].pc = "loop"
    /\ IF rs[r].todo = <<>>
       THEN rs' = [rs EXCEPT ![r].pc = "idle"]
       ELSE rs' = [rs EXCEPT ![r].todo = Tail(@)]
    /\ UNCHANGED <<index, clients, nresets, nadds, memvars, lazyvars, toolvars>>

\* one round of `for namespace in stats.get("namespaces", {}).keys()`, or
\* the return after the last one
\* (vector_store.py:119-126, delete_pinecone.py:27-31)
ResetLoop(r) ==
    /\ rs[r].pc = "loop"
    /\ IF rs[r].todo = <<>>
       THEN /\ rs' = [rs EXCEPT ![r].pc = "idle"]
            /\ index' = index
       ELSE LET ns == Head(rs[r].todo)
            IN IF ns # DefaultNs
               THEN /\ index' = [index EXCEPT ![ns] = 0]
                    /\ rs' = [rs EXCEPT ![r].todo = Tail(@),
                                        ![r].log = Append(@, LogEntry("delete", ns))]
               ELSE /\ index' = index
                    /\ rs' = [rs EXCEPT ![r].todo = Tail(@)]
    /\ UNCHANGED <<clients, nresets, nadds, memvars, lazyvars, toolvars>>

(* ------------ vector_store.similarity_search, get_retriever ----------- *)
Ks        == {-1, 0, 1, 4}      \* values of k a caller may pass (the default is 4)
Searchers == {"similarity_search", "get_retriever"}

\* asked, a history variable: the values of k the vector store was asked for
IdleSearch == [pc |-> "idle", entry |-> "similarity_search", k |-> 4,
               asked |-> <<>>, out |-> "none", n |-> 0]

\* similarity_search(query, k) or get_retriever(k) is called:
\* vector_store = get_vector_store(); get_retriever returns
\* vector_store.as_retriever(search_kwargs={"k": k})
\* (vector_store.py:95, 80-81)
SearchCall(e, k) ==
    /\ search.pc = "idle"
    /\ GetVectorStoreNow
    /\ search' = [IdleSearch EXCEPT !.pc = IF e = "get_retriever" THEN "retriever"
                                                                 ELSE "store_search",
                                    !.entry = e, !.k = k]
    /\ UNCHANGED <<memvars, lazyvars, resetvars, res, chk, up>>

\* the caller uses the retriever it was given: docs = retriever.invoke(question)
\* (rag_chain.py:61), which searches the vector store with the k it was built with
RetrieverInvoke ==
    /\ search.pc = "retriever"
    /\ search' = [search EXCEPT !.pc = "store_search"]
    /\ UNCHANGED <<memvars, clients, lazyvars, resetvars, res, chk, up>>

\* vector_store.similarity_search(query, k=k) (vector_store.py:96): the
\* store is asked for k records of the default namespace and answers with
\* at most k of them, or the call fails in the backend; what the backend
\* does with k < 1 is its own affair (an error, or no record)
StoreSearch ==
    /\ search.pc = "store_search"
    /\ \/ search' = [search EXCEPT !.pc = "idle", !.asked = Append(@, search.k),
                                    !.out = "results",
                                    !.n = IF search.k < 1 THEN 0
                                          ELSE IF search.k <= index[DefaultNs]
                                               THEN search.k ELSE index[DefaultNs]]
       \/ search' = [search EXCEPT !.pc = "idle", !.asked = Append(@, search.k),
                                    !.out = "backend_error"]
    /\ UNCHANGED <<memvars, clients, lazyvars, resetvars, res, chk, up>>

(* ------------- rag_chain.query: the sources of the result ------------- *)
\* a text is a sequence of character codes
Text(n)  == [i \in 1 .. n |-> 97 + (i % 5)]
Ellipsis == <<Dot, Dot, Dot>>
NoKey    == "<no key>"              \* the metadata lacks the key

\* the units a retrieval may return: page_content and metadata
ContentLens == {0, PreviewLen, PreviewLen + 1, PreviewLen + 4}
Units == [content : {Text(n) : n \in ContentLens},
          source  : {"geo.pdf", NoKey},
          type    : {"pdf", NoKey}]
Retrievals == UNION {[1 .. n -> Units] : n \in 0 .. MaxDocs}

\* the slice c[:n]
Prefix(c, n) == IF Len(c) <= n THEN c ELSE SubSeq(c, 1, n)

\* metadata.get(key, "Unknown")
MetaGet(v) == IF v = NoKey THEN "Unknown" ELSE v

\* mutant of Preview: line 100 read as
\* page_content[:200] + ("..." if len(page_content) > 200 else page_content)
Preview_misparsed(c) ==
    Prefix(c, PreviewLen) \o (IF Len(c) > PreviewLen THEN Ellipsis ELSE c)

\* doc.page_content[:200] + "..." if len(doc.page_content) > 200
\* else doc.page_content                                  (rag_chain.py:100)
Preview(c) ==
    IF Len(c) > PreviewLen THEN Prefix(c, PreviewLen) \o Ellipsis ELSE c

IdleResult == [pc |-> "idle", docs |-> <<>>, i |-> 1, sources |-> <<>>]

\* sources = []   (rag_chain.py:95), docs being what the retrieval returned
SourcesStart(docs) == [pc |-> "loop", docs |-> docs, i |-> 1, sources |-> <<>>]

\* one round of `for doc in docs: sources.append({...})`  (rag_chain.py:96-101)
SourcesAppend ==
    /\ res.pc = "loop"
    /\ res.i <= Len(res.docs)
    /\ LET doc == res.docs[res.i]
       IN res' = [res EXCEPT !.i = @ + 1,
                            !.sources = Append(@, [source |-> MetaGet(doc.source),
                                                   type |-> MetaGet(doc.type),
                                                   content_preview |-> Preview(doc.content)])]
    /\ UNCHANGED <<memvars, clients, lazyvars, resetvars, search, chk, up>>

\* return {"answer": answer, "sources": sources}   (rag_chain.py:103-106)
SourcesReturn ==
    /\ res.pc = "loop"
    /\ res.i > Len(res.docs)
    /\ res' = [res EXCEPT !.pc = "done"]
    /\ UNCHANGED <<memvars, clients, lazyvars, resetvars, search, chk, up>>

(* ------------------ document_loader.chunk_documents ------------------- *)
\* the arguments of a call: documents (each one the length of its text),
\* chunk_size and chunk_overlap
TextLens   == {0, 1, 3}
ChunkSizes == 1 .. 3
Overlaps   == 0 .. 4
Documents  == UNION {[1 .. n -> TextLens] : n \in 0 .. MaxDocs}

IdleChunking == [pc |-> "idle", docs |-> <<>>, size |-> 1, overlap |-> 0,
                 out |-> "none", units |-> 0]

ChunkCall(docs, size, overlap) ==
    [IdleChunking EXCEPT !.pc = "splitter", !.docs = docs, !.size = size,
                         !.overlap = overlap]

\* text_splitter = RecursiveCharacterTextSplitter(chunk_size=chunk_size,
\* chunk_overlap=chunk_overlap, ...)   (document_loader.py:94-99).
\* chunk_documents compares nothing itself; the splitter's constructor
\* raises ValueError for a chunk_overlap larger than chunk_size
MakeSplitter ==
    /\ chk.pc = "splitter"
    /\ IF chk.overlap > chk.size
       THEN chk' = [chk EXCEPT !.pc = "done", !.out = "error"]
       ELSE chk' = [chk EXCEPT !.pc = "split"]
    /\ UNCHANGED <<memvars, clients, lazyvars, resetvars, search, res, up>>

\* the documents that have text, and the characters they hold together
WithText(docs) == {i \in 1 .. Len(docs) : docs[i] > 0}
RECURSIVE TotalLen(_)
TotalLen(docs) == IF docs = <<>> THEN 0 ELSE Head(docs) + TotalLen(Tail(docs))

\* return text_splitter.split_documents(documents)   (document_loader.py:101):
\* at least one unit per document that has text, each unit of at least
\* one character
SplitDocuments ==
    /\ chk.pc = "split"
    /\ \E n \in Cardinality(WithText(chk.docs)) .. TotalLen(chk.docs) :
          chk' = [chk EXCEPT !.pc = "done", !.out = "ok", !.units = n]
    /\ UNCHANGED <<memvars, clients, lazyvars, resetvars, search, res, up>>

(* -------- main.upload_file, document_loader.load_document -------------- *)
\* a file name is a sequence of pieces: the dot, a run of letters, or a
\* character that secure_filename removes
Pieces    == {".", "a", "#", "pdf", "PDF", "docx", "xlsx", "xls", "txt"}
FileNames == UNION {[1 .. n -> Pieces] : n \in 0 .. MaxNameLen}

\* str.lower()
Lower(p)    == IF p = "PDF" THEN "pdf" ELSE p
LowerAll(f) == [i \in 1 .. Len(f) |-> Lower(f[i])]

HasDot(f)  == \E i \in 1 .. Len(f) : f[i] = "."
LastDot(f) == CHOOSE i \in 1 .. Len(f) : f[i] = "." /\ \A j \in (i + 1) .. Len(f) : f[j] # "."

\* filename.rsplit(".", 1)[1]
RSplitExt(f) == SubSeq(f, LastDot(f) + 1, Len(f))

\* ALLOWED_EXTENSIONS   (main.py:26)
ALLOWED_EXTENSIONS == {<<"pdf">>, <<"docx">>, <<"xlsx">>, <<"xls">>}

\* allowed_file   (main.py:35-37)
allowed_file(f) == HasDot(f) /\ LowerAll(RSplitExt(f)) \in ALLOWED_EXTENSIONS

\* str.strip("."): leading and trailing dots removed
RECURSIVE StripDots(_)
StripDots(f) ==
    IF f = <<>> THEN f
    ELSE IF Head(f) = "." THEN StripDots(Tail(f))
    ELSE IF f[Len(f)] = "." THEN StripDots(SubSeq(f, 1, Len(f) - 1))
    ELSE f

\* secure_filename(file.filename) (main.py:73): the characters outside
\* A-Za-z0-9_.- are removed, then leading and trailing dots
secure_filename(f) == StripDots(SelectSeq(f, LAMBDA p : p # "#"))

\* os.path.splitext(file_path)[1] (document_loader.py:66): from the last
\* dot of the base name on, the leading dots of the base name not counting
splitext(f) ==
    IF ~HasDot(f) \/ (\A j \in 1 .. LastDot(f) : f[j] = ".")
    THEN <<>>
    ELSE SubSeq(f, LastDot(f), Len(f))

\* mutant of loaders: the old Excel format has no handler
loaders_noXls ==
    [x \in {<<".", "pdf">>, <<".", "docx">>, <<".", "xlsx">>} |->
        CASE x = <<".", "pdf">>  -> "load_pdf"
          [] x = <<".", "docx">> -> "load_docx"
          [] OTHER               -> "load_excel"]

\* loaders   (document_loader.py:68-73)
loaders ==
    [x \in {<<".", "pdf">>, <<".", "docx">>, <<".", "xlsx">>, <<".", "xls">>} |->
        CASE x = <<".", "pdf">>  -> "load_pdf"
          [] x = <<".", "docx">> -> "load_docx"
          [] OTHER               -> "load_excel"]

Entries == {"upload_file", "load_document"}

\* filename: file.filename; path: the base name of file_path; loader: the
\* loader that was invoked
IdleUpload == [pc |-> "idle", entry |-> "upload_file", filename |-> <<>>,
               path |-> <<>>, loader |-> "none", out |-> "none"]

\* a file arrives at the endpoint, or load_document is called on a path
Arrive(entry, f) ==
    IF entry = "upload_file"
    THEN [IdleUpload EXCEPT !.pc = "filter", !.filename = f]
    ELSE [IdleUpload EXCEPT !.pc = "load", !.entry = entry, !.filename = f, !.path = f]

\* upload_file: the tests of the file name   (main.py:63-69)
UploadFilter ==
    /\ up.pc = "filter"
    /\ up' = IF up.filename = <<>> \/ ~allowed_file(up.filename)
             THEN [up EXCEPT !.pc = "done", !.out = "rejected"]
             ELSE [up EXCEPT !.pc = "save"]
    /\ UNCHANGED <<memvars, clients, lazyvars, resetvars, search, res, chk>>

\* filename = secure_filename(file.filename);
\* file_path = os.path.join(UPLOAD_FOLDER, filename); file.save(file_path)
\* (main.py:73-75)
UploadSave ==
    /\ up.pc = "save"
    /\ up' = [up EXCEPT !.pc = "load", !.path = secure_filename(up.filename)]
    /\ UNCHANGED <<memvars, clients, lazyvars, resetvars, search, res, chk>>

\* load_document(file_path): the loader for the lower-cased extension is
\* invoked, or ValueError("Unsupported file type") is raised
\* (document_loader.py:66-79)
LoadDocument ==
    /\ up.pc = "load"
    /\ LET extension == LowerAll(splitext(up.path))
       IN up' = IF extension \in DOMAIN loaders
                THEN [up EXCEPT !.pc = "done", !.loader = loaders[extension],
                                !.out = "loaded"]
                ELSE [up EXCEPT !.pc = "done", !.out = "unsupported"]
    /\ UNCHANGED <<memvars, clients, lazyvars, resetvars, search, res, chk>>

(* --------------------------- specifications --------------------------- *)
vars == <<memvars, clients, lazyvars, resetvars, toolvars>>

LazyInit ==
    /\ lz = [t \in Threads |-> IdleGetter]
    /\ ncalls = 0
    /\ received = [k \in Kinds |-> {}]

\* no search, result, chunking or upload is under way
ToolInit ==
    /\ search = IdleSearch
    /\ res = IdleResult
    /\ chk = IdleChunking
    /\ up = IdleUpload

IndexInit(c) ==
    /\ index = c
    /\ rs = [r \in Runners |-> IdleRunner]
    /\ nresets = 0
    /\ nadds = 0

EmptyIndex == [ns \in Namespaces |-> 0]

\* a fresh process, or one that has served earlier exchanges
Init ==
    \E p \in Prefills : MemInit(p) /\ LazyInit /\ IndexInit(EmptyIndex) /\ ToolInit

Step(t) ==
    \/ GetHistoryCreate(t)
    \/ GetHistoryReturn(t)
    \/ Retrieve(t)
    \/ Generate(t)
    \/ AppendHuman(t)
    \/ AppendAssistant(t)
    \/ Trim(t)
    \/ Store(t)
    \/ ClearDel(t)

\* request handlers run concurrently on the server's threads
Next ==
    \/ \E t \in Threads, s \in Sessions, q \in Questions : nq < ConcQueries /\ Begin(t, s, q)
    \/ \E t \in Threads, s \in Sessions : nclr < ConcClears /\ ClearCheck(t, s)
    \/ \E t \in Threads : Step(t)

Spec == Init /\ [][Next]_vars

AllIdle == \A t \in Threads : th[t].pc = "idle"

\* calls issued one after the other: a call starts only when none is running
SeqNext ==
    \/ \E t \in Threads, s \in Sessions, q \in Questions : AllIdle /\ Begin(t, s, q)
    \/ \E t \in Threads, s \in Sessions : AllIdle /\ ClearCheck(t, s)
    \/ \E t \in Threads : Step(t)

SeqSpec == Init /\ [][SeqNext]_vars

\* concurrent first uses of the client getters in a fresh process
LazyStep(t) ==
    \/ GetVectorStoreCheck(t)
    \/ InitPineconeCheck(t)
    \/ InitPineconeStore(t)
    \/ InitPineconeReturn(t)
    \/ GetEmbeddingsCheck(t)
    \/ GetEmbeddingsStore(t)
    \/ GetEmbeddingsReturn(t)
    \/ GetVectorStoreStore(t)
    \/ GetVectorStoreReturn(t)

LazyNext ==
    \/ \E t \in Threads, e \in Getters : GetterCall(t, e)
    \/ \E t \in Threads : LazyStep(t)

LazyInitial == MemInit(0) /\ LazyInit /\ IndexInit(EmptyIndex) /\ ToolInit

LazySpec == LazyInitial /\ [][LazyNext]_vars

\* resets of an index that other writers may have filled, with uploads
ResetNext ==
    \/ \E r \in Runners : ResetStats(r)
    \/ \E r \in Runners : ResetDeleteDefault(r)
    \/ \E r \in Runners : ResetLoop(r)
    \/ \E n \in 1 .. 2 : AddDocuments(n)

ResetInitial ==
    \E c \in [Namespaces -> 0 .. 1] : MemInit(0) /\ LazyInit /\ IndexInit(c) /\ ToolInit

ResetSpec == ResetInitial /\ [][ResetNext]_vars

NoReset == \A r \in Runners : rs[r].pc = "idle"

\* resets and uploads issued one after the other
ResetSeqNext ==
    \/ \E r \in Runners : NoReset /\ ResetStats(r)
    \/ \E r \in Runners : ResetDeleteDefault(r)
    \/ \E r \in Runners : ResetLoop(r)
    \/ \E n \in 1 .. 2 : NoReset /\ AddDocuments(n)

ResetSeqSpec == ResetInitial /\ [][ResetSeqNext]_vars

\* searches of an index that holds some records
SearchNext ==
    \/ \E e \in Searchers, k \in Ks : SearchCall(e, k)
    \/ RetrieverInvoke
    \/ StoreSearch

SearchInitial ==
    \E c \in [Namespaces -> 0 .. 2] : MemInit(0) /\ LazyInit /\ IndexInit(c) /\ ToolInit

SearchSpec == SearchInitial /\ [][SearchNext]_vars

\* the result of a query being built from any retrieval
SourcesNext == SourcesAppend \/ SourcesReturn

SourcesInitial ==
    /\ MemInit(0) /\ LazyInit /\ IndexInit(EmptyIndex)
    /\ search = IdleSearch /\ chk = IdleChunking /\ up = IdleUpload
    /\ \E docs \in Retrievals : res = SourcesStart(docs)

SourcesSpec == SourcesInitial /\ [][SourcesNext]_vars

\* chunk_documents called with any documents and configuration
ChunkNext == MakeSplitter \/ SplitDocuments

ChunkInitial ==
    /\ MemInit(0) /\ LazyInit /\ IndexInit(EmptyIndex)
    /\ search = IdleSearch /\ res = IdleResult /\ up = IdleUpload
    /\ \E docs \in Documents, size \in ChunkSizes, overlap \in Overlaps :
          chk = ChunkCall(docs, size, overlap)

ChunkSpec == ChunkInitial /\ [][ChunkNext]_vars

\* any file name uploaded, or any path handed to load_document
LoadNext == UploadFilter \/ UploadSave \/ LoadDocument

LoadInitial ==
    /\ MemInit(0) /\ LazyInit /\ IndexInit(EmptyIndex)
    /\ search = IdleSearch /\ res = IdleResult /\ chk = IdleChunking
    /\ \E entry \in Entries, f \in FileNames : up = Arrive(entry, f)

LoadSpec == LoadInitial /\ [][LoadNext]_vars

TypeOK ==
    /\ \A s \in Sessions : Len(Turns(s)) <= HistoryCap + 2 * MaxQueries
    /\ nq \in 0 .. MaxQueries

(* ============================== claims ================================ *)
Range(seq) == {seq[i] : i \in 1 .. Len(seq)}
Min(a, b)  == IF a <= b THEN a ELSE b

\* C1: between calls issued one after the other, every session's history
\* holds at most 20 turns and is exactly the most recent (up to 20) turns
\* appended to the session since its last clear.
C1_CapKeepsNewest ==
    AllIdle => \A s \in Sessions :
                  /\ Len(Turns(s)) <= HistoryCap
                  /\ LET n == Len(appended[s])
                         k == Min(n, HistoryCap)
                     IN Turns(s) = [i \in 1 .. k |-> appended[s][n - k + i]]

\* a trim has discarded the oldest pair of a session
C1_Witness ==
    /\ AllIdle
    /\ \E s \in Sessions : /\ Len(appended[s]) > HistoryCap
                           /\ Len(Turns(s)) = HistoryCap
                           /\ Turns(s)[1] = appended[s][3]

\* C2: a successful query appends one human turn carrying the question and
\* then one assistant turn carrying the answer; after n successful queries
\* in a row on a fresh session the history has min(2n, 20) turns.
C2_Counts ==
    AllIdle => \A s \in Sessions :
                  /\ Len(Turns(s)) = Min(2 * okCount[s], HistoryCap)
                  /\ Len(appended[s]) = 2 * okCount[s]

C2_Appends ==
    \A t \in Threads :
        /\ (th[t].pc = "append_human" /\ th'[t].pc = "append_assistant")
              => /\ Len(heap'[th[t].history]) = Len(heap[th[t].history]) + 1
                 /\ LET new == heap'[th[t].history][Len(heap'[th[t].history])]
                    IN new.role = "human" /\ new.text = th[t].question
        /\ (th[t].pc = "append_assistant" /\ th'[t].pc = "trim")
              => /\ Len(heap'[th[t].history]) = Len(heap[th[t].history]) + 1
                 /\ LET old == heap[th[t].history][Len(heap[th[t].history])]
                        new == heap'[th[t].history][Len(heap'[th[t].history])]
                    IN /\ new.role = "assistant" /\ new.text = th[t].answer
                       /\ old.role = "human" /\ old.gen = new.gen
        /\ \A s \in Sessions :
              (th[t].pc \in {"trim", "store"} /\ th'[t].pc = "idle" /\ th[t].sid = s)
                 => /\ ret' = "ok"
                    /\ okCount' = [okCount EXCEPT ![s] = @ + 1]

C2_OnePairPerQuery == []C2_Counts /\ [][C2_Appends]_vars

\* the eleventh query in a row has returned: 20 turns, the first pair gone
C2_Witness ==
    /\ AllIdle
    /\ \E s \in Sessions : /\ okCount[s] = (HistoryCap \div 2) + 1
                           /\ Len(Turns(s)) = HistoryCap
                           /\ appended[s][1] \notin Range(Turns(s))
                           /\ appended[s][2] \notin Range(Turns(s))

\* C3: clear_memory on a session with history returns True and removes the
\* session, the next query on it is assembled with an empty history, and a
\* second clear_memory with no query in between returns False.
C3_ClearStep ==
    \A t \in Threads :
        /\ \A s \in Sessions :
              (th[t].pc = "clear_del" /\ th'[t].pc = "idle" /\ th[t].sid = s
                                     /\ Len(Turns(s)) > 0)
                 => /\ ret' = "True"
                    /\ ~Registered(s)'
                    /\ Turns(s)' = <<>>
        /\ \A s \in Sessions :
              (ClearCheck(t, s) /\ justCleared[s]) => ret' = "False"

C3_NextPrompt ==
    \A t \in Threads :
        (th[t].pc = "generate" /\ appended[th[t].sid] = <<>>) => th[t].prompt = <<>>

C3_ClearMemory == []C3_NextPrompt /\ [][C3_ClearStep]_vars

\* a query is past prompt assembly with an empty history on a session that
\* held the nine earlier exchanges (the other session still holds its own)
\* and was cleared; the second clear in a row has returned False
C3_Witness ==
    \E t \in Threads, s \in Sessions :
        /\ th[t].pc = "generate" /\ th[t].sid = s /\ th[t].prompt = <<>>
        /\ nclr = 2
        /\ \E o \in Sessions : o # s /\ okCount[o] = (HistoryCap \div 2) - 1

\* C4: a call on session a leaves every other session's registration and
\* turns unchanged, and the prior turns in the prompt of a query on a were
\* all appended by queries on a.
C4_Frame ==
    \A t \in Threads :
        th'[t] # th[t] =>
            LET a == IF th[t].pc = "idle" THEN th'[t].sid ELSE th[t].sid
            IN \A b \in Sessions \ {a} :
                  /\ session_histories'[b] = session_histories[b]
                  /\ Turns(b)' = Turns(b)

C4_OwnTurnsOnly ==
    /\ \A t \in Threads :
          /\ \A i \in 1 .. Len(th[t].prompt) : th[t].prompt[i].sid = th[t].sid
          /\ th[t].history # NoObj =>
                \A i \in 1 .. Len(heap[th[t].history]) : heap[th[t].history][i].sid = th[t].sid
    /\ \A s \in Sessions : \A i \in 1 .. Len(Turns(s)) : Turns(s)[i].sid = s

C4_NoCrossSession == []C4_OwnTurnsOnly /\ [][C4_Frame]_vars

\* a query on one session has its prompt assembled from that session's
\* turns while the other session holds turns appended during this behaviour
C4_Witness ==
    \E t \in Threads, b \in Sessions :
        /\ th[t].pc = "generate" /\ th[t].sid # b
        /\ Len(th[t].prompt) > 0
        /\ \E i \in 1 .. Len(Turns(b)) : Turns(b)[i].gen > 0

\* C5: a query that fails at retrieval or generation leaves the session's
\* turns as they were when the call was issued.
PreAppendPcs == {"gh_create", "gh_return", "retrieve", "generate"}

C5_FailStep ==
    \A t \in Threads :
        /\ \A s \in Sessions :
              (th[t].pc \in PreAppendPcs /\ th'[t].pc = "idle" /\ th[t].sid = s)
                 => /\ ret' = "error"
                    /\ Turns(s)' = th[t].pre
                    /\ appended' = appended
        /\ (th[t].pc \notin {"idle", "clear_del"} /\ th'[t].pc = "idle" /\ ret' = "error")
              => th[t].pc \in PreAppendPcs

C5_NoPartialUpdate == [][C5_FailStep]_vars

\* a query has just failed while every session holds turns, so the one it
\* was called on does
C5_Witness ==
    /\ AllIdle /\ ret = "error" /\ nq > 0
    /\ \A s \in Sessions : Len(Turns(s)) > 0

\* C6: concurrent queries on one session never interleave their appends:
\* in every history each human turn is immediately followed by the
\* assistant turn of the same query (a human turn may be last only while
\* its query is between its two appends).
PairedIn(h) ==
    \A i \in 1 .. Len(h) :
        h[i].role = "human" =>
            IF i < Len(h)
            THEN h[i + 1].role = "assistant" /\ h[i + 1].gen = h[i].gen
            ELSE \E t \in Threads : th[t].pc = "append_assistant" /\ th[t].gen = h[i].gen

C6_NoInterleavedAppends ==
    /\ \A s \in Sessions : PairedIn(Turns(s))
    /\ \A t \in Threads : th[t].history # NoObj => PairedIn(heap[th[t].history])

\* C7: once concurrent queries on a session have all returned (and nothing
\* was cleared), the registered history has at most 20 turns and misses a
\* turn appended to the session only if the cap evicted it as oldest.
C7_NoLostPair ==
    (AllIdle /\ nclr = 0) =>
        \A s \in Sessions :
            /\ Len(Turns(s)) <= HistoryCap
            /\ \A i, j \in 1 .. Len(appended[s]) :
                  (i < j /\ appended[s][i] \in Range(Turns(s)))
                      => appended[s][j] \in Range(Turns(s))
            /\ (\E i \in 1 .. Len(appended[s]) : appended[s][i] \notin Range(Turns(s)))
                  => Len(Turns(s)) = HistoryCap

\* C8: within a session the pairs stand in the history in the order in
\* which their queries completed generation.
C8_GenerationOrder ==
    \A s \in Sessions :
        \A i, j \in 1 .. Len(Turns(s)) :
            (i < j /\ Turns(s)[i].role = "human" /\ Turns(s)[j].role = "human")
                => Turns(s)[i].gen < Turns(s)[j].gen

\* C9: lazy construction of the shared clients is synchronized: under any
\* interleaving of first uses each client is constructed at most once and
\* every caller receives the same instance.
C9_ConstructedOnce ==
    \A k \in Kinds : built[k] <= 1 /\ Cardinality(received[k]) <= 1

\* C10: a reset reads the index statistics before any delete, then deletes
\* the default namespace, then every named namespace the statistics list;
\* when no indexing ran during the reset, every namespace is empty when it
\* returns.
Named(seq) == SelectSeq(seq, LAMBDA ns : ns # DefaultNs)

C10_Order ==
    \A r \in Runners :
        LET log == rs[r].log
            named == Named(rs[r].stats)
        IN Len(log) > 0 =>
             /\ log[1].op = "stats"
             /\ \A i \in 2 .. Len(log) : log[i].op = "delete"
             /\ Len(log) >= 2 => log[2].ns = DefaultNs
             /\ Len(log) - 2 <= Len(named)
             /\ \A i \in 3 .. Len(log) : log[i].ns = named[i - 2]
             /\ rs[r].pc = "idle" => Len(log) = Len(named) + 2

C10_Return ==
    \A r \in Runners :
        (rs[r].pc = "loop" /\ rs'[r].pc = "idle" /\ ~rs[r].dirty)
            => \A ns \in Namespaces : index'[ns] = 0

C10_ResetEmptiesIndex == []C10_Order /\ [][C10_Return]_vars

\* a reset that found records in the default and in both named namespaces
\* has returned, undisturbed, and the index is empty
C10_Witness ==
    \E r \in Runners :
        /\ rs[r].pc = "idle" /\ ~rs[r].dirty
        /\ Len(rs[r].stats) = 3 /\ Len(rs[r].log) = 4
        /\ rs[r].total >= 3
        /\ \A ns \in Namespaces : index[ns] = 0
\* C11: a reset reports as previous_vector_count the number of records the
\* index held, over all namespaces, right before its deletes; the first
\* reset after an upload reports a count > 0, and a reset issued after
\* another with no upload in between reports 0.
IndexCount == index[DefaultNs] + index["n1"] + index["n2"]

C11_Step ==
    \A r \in Runners :
        \* the statistics read: the count reported is the count held
        /\ (rs[r].pc = "idle" /\ rs'[r].pc = "del_default")
              => /\ rs'[r].total = IndexCount
                 /\ (nresets = 0 /\ nadds > 0) => rs'[r].total > 0
                 /\ (\E u \in Runners : Len(rs[u].log) > 0 /\ rs[u].adds = nadds)
                        => rs'[r].total = 0
        \* the first delete: nothing was deleted or added since the read
        /\ (rs[r].pc = "del_default" /\ rs'[r].pc = "loop")
              => rs[r].total = IndexCount
        \* the count read is the one returned
        /\ rs[r].pc # "idle" => rs'[r].total = rs[r].total

C11_PreviousCount == [][C11_Step]_vars

\* the second of two resets in a row has returned and reported 0, the first
\* one having reported the records of an upload and of a named namespace
C11_Witness ==
    \E r, u \in Runners :
        /\ NoReset /\ nresets = 2 /\ nadds > 0
        /\ rs[r].total = 0 /\ Len(rs[r].log) > 0 /\ rs[r].adds = nadds
        /\ u # r /\ rs[u].total >= 3 /\ rs[u].adds = nadds
\* C12: a query whose question is the empty string is rejected at the call:
\* it never reaches retrieval, generation or the appends, and no human turn
\* with an empty text enters a history.
PastCallPcs == {"retrieve", "generate", "append_human", "append_assistant", "trim", "store"}

C12_EmptyQuestionRejected ==
    /\ \A t \in Threads : th[t].pc \in PastCallPcs => th[t].question # ""
    /\ \A s \in Sessions : \A i \in 1 .. Len(Turns(s)) :
          Turns(s)[i].role = "human" => Turns(s)[i].text # ""
\* C13: a search with k < 1 fails with InvalidArgument before the vector
\* store is called: the store is never asked for fewer than one record, and
\* a search or retriever with k < 1 that has ended has ended with
\* InvalidArgument.
C13_KValidated ==
    /\ \A i \in 1 .. Len(search.asked) : search.asked[i] >= 1
    /\ (search.pc = "idle" /\ search.out # "none" /\ search.k < 1)
          => search.out = "InvalidArgument"
\* C14: the sources of a result hold one entry per retrieved unit, in
\* retrieval order; an entry's content_preview is the unit's whole content
\* when that has at most 200 characters, and otherwise its first 200
\* characters followed by "...".
C14_Entry(doc, src) ==
    LET c == doc.content
        p == src.content_preview
    IN /\ src.source = (IF doc.source = NoKey THEN "Unknown" ELSE doc.source)
       /\ src.type = (IF doc.type = NoKey THEN "Unknown" ELSE doc.type)
       /\ Len(c) <= 200 => p = c
       /\ Len(c) > 200 => /\ Len(p) = 203
                          /\ \A j \in 1 .. 200 : p[j] = c[j]
                          /\ \A j \in 201 .. 203 : p[j] = 46

C14_SourcesPreview ==
    /\ res.pc \in {"loop", "done"} =>
          /\ Len(res.sources) = res.i - 1
          /\ \A j \in 1 .. Len(res.sources) : C14_Entry(res.docs[j], res.sources[j])
    /\ res.pc = "done" => Len(res.sources) = Len(res.docs)

\* a result is built from two units, the first one of exactly 200
\* characters and kept whole, the second one longer and cut
C14_Witness ==
    /\ res.pc = "done" /\ Len(res.docs) = 2
    /\ Len(res.docs[1].content) = 200 /\ res.sources[1].content_preview = res.docs[1].content
    /\ Len(res.docs[2].content) > 200 /\ Len(res.sources[2].content_preview) = 203
\* C15: chunk_documents fails for every configuration with
\* overlap >= max_size, overlap = max_size included, and emits no unit
\* then: such a call never gets to split and ends in the error.
C15_OverlapRejected ==
    chk.overlap >= chk.size =>
        /\ chk.pc # "split"
        /\ chk.pc = "done" => (chk.out = "error" /\ chk.units = 0)
\* C16: the steps of one query run in program order: retrieval returns,
\* then the prompt is assembled from the history as it stands (holding no
\* turn of this query), then generation is invoked once (a failure ends
\* the query, nothing is retried), and the history is appended to only
\* after generation has returned an answer.
QueryOrder ==
    {<<"idle", "gh_create">>, <<"idle", "gh_return">>, <<"gh_create", "gh_return">>,
     <<"gh_return", "retrieve">>, <<"retrieve", "generate">>,
     <<"generate", "append_human">>, <<"append_human", "append_assistant">>,
     <<"append_assistant", "trim">>, <<"trim", "store">>}
QueryPcs == {"gh_create", "gh_return", "retrieve", "generate",
             "append_human", "append_assistant", "trim", "store"}

C16_Step ==
    /\ \A t \in Threads :
          \* a query moves to its next step, or ends, or stays
          /\ \/ <<th[t].pc, th'[t].pc>> \in QueryOrder
             \/ th'[t].pc = th[t].pc
             \/ th[t].pc \in QueryPcs /\ th'[t].pc = "idle"
             \/ th[t].pc \notin QueryPcs /\ th'[t].pc \notin QueryPcs
          \* the prompt is assembled when retrieval has returned
          /\ (th[t].pc = "retrieve" /\ th'[t].pc = "generate")
                => th'[t].prompt = heap[th[t].history]
          \* generation returns once, with an answer; the prompt it was
          \* given holds no turn of this query
          /\ (th[t].pc = "generate" /\ th'[t].pc = "append_human")
                => /\ ngen' = ngen + 1
                   /\ th'[t].gen = ngen + 1
                   /\ th'[t].answer \in Answers
                   /\ \A i \in 1 .. Len(th[t].prompt) : th[t].prompt[i].gen <= ngen
          \* a failed generation ends the query
          /\ (th[t].pc = "generate" /\ th'[t].pc = "idle") => (ret' = "error" /\ ngen' = ngen)
          \* the list a query holds changes only by the append of a query
          \* that has its answer (or is freed)
          /\ (th[t].history # NoObj /\ heap'[th[t].history] # heap[th[t].history])
                => \/ heap'[th[t].history] = <<>>
                   \/ \E u \in Threads :
                         /\ th[u].history = th[t].history
                         /\ th[u].gen >= 1 /\ th[u].answer \in Answers
                         /\ \/ /\ th[u].pc = "append_human" /\ th'[u].pc = "append_assistant"
                               /\ heap'[th[t].history] = Append(heap[th[t].history],
                                     [role |-> "human", text |-> th[u].question,
                                      gen |-> th[u].gen, sid |-> th[u].sid])
                            \/ /\ th[u].pc = "append_assistant" /\ th'[u].pc = "trim"
                               /\ heap'[th[t].history] = Append(heap[th[t].history],
                                     [role |-> "assistant", text |-> th[u].answer,
                                      gen |-> th[u].gen, sid |-> th[u].sid])
    /\ ngen' # ngen => \E t \in Threads : th[t].pc = "generate" /\ th'[t].pc = "append_human"

C16_Positions ==
    \A t \in Threads :
        /\ th[t].prompt # <<>> => th[t].pc = "generate"
        /\ th[t].pc \in {"gh_create", "gh_return", "retrieve", "generate"} => th[t].gen = 0
        /\ th[t].pc \in {"append_human", "append_assistant", "trim", "store"}
              => (th[t].gen >= 1 /\ th[t].answer \in Answers)

C16_StepsInOrder == []C16_Positions /\ [][C16_Step]_vars

\* one query has made both its appends after its generation while another
\* one, on the same session, waits for its generation with a prompt
\* assembled from the earlier turns
C16_Witness ==
    \E t, u \in Threads :
        /\ th[t].pc = "trim" /\ th[t].gen >= 1
        /\ LET h == heap[th[t].history]
           IN /\ Len(h) >= 2
              /\ h[Len(h)].gen = th[t].gen /\ h[Len(h) - 1].gen = th[t].gen
        /\ th[u].pc = "generate" /\ th[u].sid = th[t].sid /\ Len(th[u].prompt) > 0
\* C17: once clear_memory(s) has returned, no turn appended to s before the
\* clear is part of the history registered for s again, also when a query
\* on s that had fetched the history before the clear completes after it.
C17_ClearedTurnsGone ==
    \A s \in Sessions : \A i \in 1 .. Len(Turns(s)) : Turns(s)[i] \notin wiped[s]
\* C18: load_document fails, invoking no loader, for every extension
\* without a handler; each of pdf, docx, xlsx, xls, in any case, that the
\* upload filter accepts has a handler; so an upload that passes the filter
\* and is saved with its extension intact never fails as unsupported.
Handled == {<<".", "pdf">>, <<".", "docx">>, <<".", "xlsx">>, <<".", "xls">>}

\* the saved name still ends in the dot and extension of the uploaded one
ExtensionIntact ==
    /\ HasDot(up.filename) /\ HasDot(up.path)
    /\ SubSeq(up.path, LastDot(up.path), Len(up.path))
          = SubSeq(up.filename, LastDot(up.filename), Len(up.filename))

C18_DispatchMatchesFilter ==
    /\ \A x \in ALLOWED_EXTENSIONS : <<".">> \o x \in DOMAIN loaders
    /\ up.pc = "done" /\ up.out # "rejected" =>
          /\ LowerAll(splitext(up.path)) \notin Handled
                => (up.out = "unsupported" /\ up.loader = "none")
          /\ LowerAll(splitext(up.path)) \in Handled
                => (up.out = "loaded" /\ up.loader # "none")
          /\ (up.entry = "upload_file" /\ ExtensionIntact) => up.out = "loaded"

\* an upload named like a.PDF has passed the filter and was dispatched to
\* the PDF loader
C18_Witness ==
    /\ up.pc = "done" /\ up.entry = "upload_file" /\ ExtensionIntact
    /\ up.filename[Len(up.filename)] = "PDF"
    /\ up.loader = "load_pdf"

\* an upload named like .pdf passes the filter, loses its extension when
\* it is saved as pdf, and fails as unsupported
C18_LosesExtension ==
    /\ up.pc = "done" /\ up.entry = "upload_file" /\ ~ExtensionIntact
    /\ up.out = "unsupported"
\* C19: query registers the session before retrieval runs: a query at
\* retrieval or generation works on the list registered for its session,
\* and when it fails there on a session that had no turns, the session is
\* left registered with an empty history, so that the clear_memory that
\* follows returns True.
C19_Registered ==
    \A t \in Threads :
        th[t].pc \in {"retrieve", "generate"}
            => /\ session_histories[th[t].sid] # NoObj
               /\ th[t].history = session_histories[th[t].sid]

C19_Step ==
    \A t \in Threads : \A s \in Sessions :
        /\ (th[t].pc \in {"retrieve", "generate"} /\ th'[t].pc = "idle" /\ th[t].sid = s
                                                   /\ th[t].pre = <<>>)
              => /\ ret' = "error"
                 /\ session_histories'[s] # NoObj
                 /\ heap'[session_histories'[s]] = <<>>
        /\ (ClearCheck(t, s) /\ session_histories[s] # NoObj) => th'[t].pc = "clear_del"
        /\ (th[t].pc = "clear_del" /\ th'[t].pc = "idle") => ret' = "True"

C19_RegisteredEarly == []C19_Registered /\ [][C19_Step]_vars

\* in a fresh process no generation has ever returned, yet a clear_memory
\* has returned True: the session it removed was registered by a query
\* that failed
C19_Witness ==
    /\ AllIdle /\ ret = "True" /\ nclr = 1 /\ nq >= 1 /\ ngen = 0
    /\ \A s \in Sessions : Turns(s) = <<>> /\ okCount[s] = 0
\* C20: with calls issued one after the other, every registered history
\* alternates human, assistant, human, assistant ... from a human turn on,
\* each assistant turn being the answer to the question right before it,
\* and has an even length between calls; a trim leaves no assistant turn
\* at the front and separates no question from its answer.
C20_Alternates ==
    \A s \in Sessions :
        LET h == Turns(s)
        IN /\ \A i \in 1 .. Len(h) :
                 IF i % 2 = 1
                 THEN h[i].role = "human"
                 ELSE h[i].role = "assistant" /\ h[i].gen = h[i - 1].gen
           /\ Len(h) % 2 = 1
                 => \E t \in Threads : th[t].pc = "append_assistant" /\ th[t].sid = s
           /\ AllIdle => Len(h) % 2 = 0

\* a trim has cut a history of 22 turns: the 20 left start with the
\* question of the second exchange, followed by its answer
C20_Witness ==
    /\ AllIdle
    /\ \E s \in Sessions :
          /\ Len(appended[s]) = HistoryCap + 2
          /\ Len(Turns(s)) = HistoryCap
          /\ Turns(s)[1].role = "human" /\ Turns(s)[2].role = "assistant"
          /\ Turns(s)[1].gen = appended[s][3].gen /\ Turns(s)[2].gen = Turns(s)[1].gen
====
